---------------------------- MODULE Spec2Model ----------------------------
(***************************************************************************)
(* A state-machine model of COSmon (src/COSmon/Source/COSmon.c): the COS   *)
(* edge detector and stuck-high watchdog, the shutdown-switch counter and  *)
(* the network indicator, driven by the polling loop of main().            *)
(*                                                                         *)
(* One step of the model is either the start-up code of main() (Startup)   *)
(* or one pass through the for(;;) loop (Tick).  The values read from the  *)
(* pins and from getIPaddress() are the inputs of a pass.  Pin levels and  *)
(* C booleans are the integers 0 and 1, as in wiringPi and <stdbool.h>.    *)
(***************************************************************************)
EXTENDS Integers, Sequences, FiniteSets, TLC

(***************************************************************************)
(* Program constants.                                                      *)
(***************************************************************************)
LOW == 0
HIGH == 1
\* uint16_t arithmetic is modulo 2^16
UINT16_MOD == 65536
\* exit(-1) is seen by the parent as status 255; RETVAL_OK is 0
EXIT_FAILURE_STATUS == 255
RETVAL_OK == 0

(***************************************************************************)
(* Bounds of the model.                                                    *)
(***************************************************************************)
\* passes through the loop explored by Spec
MaxLoops == 7
\* passes through the loop explored by SpecStuck (more than 2^16)
StuckLoops == 65540
\* largest network_check_divisor tried
MaxDivisor == 2
\* largest shutdown_switch_activate_count tried
MaxSDActivate == 2

Levels == {LOW, HIGH}

\* COS_timeout_ms and COS_poll_loop_interval_ms values tried; the quotients
\* are 1, 2.5 (rounds to 3) and 65536 (does not fit a uint16_t)
TimeoutMsValues == {100, 250, 6553600}
LoopDelayMsValues == {100}

\* strlen() of what getIPaddress() returns: "" or e.g. "192.168.1.5"
IPlenValues == {0, 11}

\* SDswitchPressedCount is never initialised: its first value is whatever
\* the stack holds.  The loop only compares it with SDswitchActivateCount
\* and increments it, so one value per outcome is kept: each value up to
\* the largest threshold, one above it, and the value that wraps to 0.
UninitU16 == (0 .. (MaxSDActivate + 1)) \cup {UINT16_MOD - 1}

VARIABLES
    \* the environment and /etc/COSmon.conf, fixed for a run
    asteriskCtl,            \* /var/run/asterisk.ctl exists
    COStimeoutEnable,
    shutdownSwitchEnable,
    networkStatusOn,
    TimeoutMs,
    LoopDelayMs,
    netCheckDivisor,
    SDswitchActivateCount,
    \* main()
    pc,                     \* "start", "running", "exited", "terminated"
    exitStatus,
    LastCOSState,
    CurrCOSState,
    TimeoutCountCOS,
    TimeoutCount,
    SDswitchPressedCount,
    loopCount,
    \* wifiLightHandler()
    lastWrite,
    IPlen,
    \* what the outside sees
    networkPinLevel,        \* level driven on networkStatusPin
    shutdownSample,         \* last level read from shutdownSwitchPin
    io,                     \* the calls made by the last step, in order
    \* history, for stating the properties
    lastEdge,               \* "none", "rising", "falling"
    heldTicks,              \* passes since the last edge (or since start)
    timeoutsSinceEdge,      \* watchdog unkeys since the last edge
    pressedRun,             \* current run of pressed shutdown samples
    prevConnected,          \* connectivity found by the previous check
    netChecked,             \* the last pass called wifiLightHandler()
    prevSample,             \* the level last read from the COS pin
    lastCmd                 \* most recent of key/unkey: "none", "key", "unkey"

cfgVars == <<asteriskCtl, COStimeoutEnable, shutdownSwitchEnable,
             networkStatusOn, TimeoutMs, LoopDelayMs, netCheckDivisor,
             SDswitchActivateCount>>
progVars == <<pc, exitStatus, LastCOSState, CurrCOSState, TimeoutCountCOS,
              TimeoutCount, SDswitchPressedCount, loopCount, lastWrite,
              IPlen>>
obsVars == <<networkPinLevel, shutdownSample, io>>
histVars == <<lastEdge, heldTicks, timeoutsSinceEdge, pressedRun,
              prevConnected, netChecked>>
cmdVars == <<prevSample, lastCmd>>
vars == <<cfgVars, progVars, obsVars, histVars, cmdVars>>

(***************************************************************************)
(* The calls the program makes, as entries of io.                          *)
(***************************************************************************)
KeyCmd == <<"system", "asterisk -rx susb tune menu-support K">>
UnkeyCmd == <<"system", "asterisk -rx susb tune menu-support k">>
ShutdownScript == <<"system", "/usr/local/sbin/astdn.sh">>
PoweroffCmd == <<"system", "/usr/bin/poweroff">>
TimeoutMsg == <<"printf", "COS Timeout">>
ShutdownMsg == <<"printf", "Shutting down!">>
NotRunningMsg == <<"fprintf", "Asterisk needs to be running first!  Exiting">>
GraceDelay == <<"delay", "grace">>
LoopDelay == <<"delay", "LoopDelayMs">>
NetWrite(level) == <<"digitalWrite", IF level = HIGH THEN "HIGH" ELSE "LOW">>

Count(s, e) == Cardinality({i \in DOMAIN s : s[i] = e})
Has(s, e) == Count(s, e) > 0
IsOutput(e) == e[1] \in {"system", "digitalWrite"}

RECURSIVE LastCommand(_, _)
\* the most recent key/unkey command once the calls s are made after prev
LastCommand(s, prev) ==
    IF s = <<>> THEN prev
    ELSE LET e == s[Len(s)]
         IN  IF e = KeyCmd THEN "key"
             ELSE IF e = UnkeyCmd THEN "unkey"
             ELSE LastCommand(SubSeq(s, 1, Len(s) - 1), prev)

(***************************************************************************)
(* Conversions.                                                            *)
(***************************************************************************)
ToU16(n) == n % UINT16_MOD

\* tempval=(float)TimeoutMs/(float)LoopDelayMs; tempval += 0.5;
\* TimeoutCountCOS=(int)tempval;   (exact for the values tried; / 0 excluded)
ComputeTimeoutCount(ms, delayMs) ==
    ToU16((2 * ms + delayMs) \div (2 * delayMs))

(***************************************************************************)
(* Initial state: the process has started and the configuration is read.   *)
(* The variables main() assigns before it reads them start at 0 here.      *)
(***************************************************************************)
InitCommon ==
    /\ pc = "start"
    /\ exitStatus = 0
    /\ LastCOSState = LOW
    /\ CurrCOSState = LOW
    /\ TimeoutCountCOS = 0
    /\ TimeoutCount = 0
    /\ loopCount = 0
    /\ lastWrite = LOW
    /\ IPlen = 0
    /\ networkPinLevel = LOW
    /\ shutdownSample = HIGH
    /\ io = <<>>
    /\ lastEdge = "none"
    /\ heldTicks = 0
    /\ timeoutsSinceEdge = 0
    /\ pressedRun = 0
    /\ prevConnected = FALSE
    /\ netChecked = FALSE
    /\ prevSample = LOW
    /\ lastCmd = "none"

Init ==
    /\ InitCommon
    /\ shutdownSwitchEnable \in BOOLEAN
    /\ asteriskCtl \in BOOLEAN
    /\ COStimeoutEnable \in BOOLEAN
    /\ networkStatusOn \in BOOLEAN
    /\ TimeoutMs \in TimeoutMsValues
    /\ LoopDelayMs \in LoopDelayMsValues
    /\ netCheckDivisor \in 1 .. MaxDivisor
    /\ SDswitchActivateCount \in 1 .. MaxSDActivate
    /\ SDswitchPressedCount \in UninitU16

(***************************************************************************)
(* main(), lines 168-212: the start-up code.                               *)
(***************************************************************************)
\* the access() check left out
AsteriskRunningUnchecked == TRUE

\* if (access("/var/run/asterisk.ctl", F_OK) != 0) is false
AsteriskRunning == asteriskCtl

\* the unkey of line 212 left out
StartupCallsNoUnkey == <<NetWrite(LOW)>>

\* digitalWrite(networkStatusPin, LOW); ... system(UnkeyCmd);
StartupCalls == <<NetWrite(LOW), UnkeyCmd>>

\* a fixed default instead of the level read
FirstCOSStateDefault(first) == LOW

\* LastCOSState=digitalRead(ExtCOSPin);
FirstCOSState(first) == first

Startup ==
    /\ pc = "start"
    /\ IF ~AsteriskRunning
       THEN /\ pc' = "exited"
            /\ exitStatus' = EXIT_FAILURE_STATUS
            /\ io' = <<NotRunningMsg>>
            /\ UNCHANGED <<LastCOSState, TimeoutCountCOS, TimeoutCount,
                           networkPinLevel, cmdVars>>
       ELSE \E first \in Levels :
            /\ pc' = "running"
            /\ exitStatus' = exitStatus
            /\ TimeoutCountCOS' = ComputeTimeoutCount(TimeoutMs, LoopDelayMs)
            /\ TimeoutCount' = ToU16(-1)
            /\ networkPinLevel' = LOW
            /\ LastCOSState' = FirstCOSState(first)
            /\ io' = StartupCalls
            /\ prevSample' = first
            /\ lastCmd' = LastCommand(StartupCalls, lastCmd)
    /\ UNCHANGED <<cfgVars, CurrCOSState, SDswitchPressedCount, loopCount,
                   lastWrite, IPlen, shutdownSample, histVars>>

(***************************************************************************)
(* main(), lines 216-252: COS edge detection and the stuck-high watchdog.  *)
(***************************************************************************)
\* the change detection left out: every pass acts on the level
EdgeDetectedEveryPass(last, curr) == TRUE

\* if (LastCOSState!=CurrCOSState)
EdgeDetected(last, curr) == last # curr

\* the countdown loaded one too high
ReloadCountOffByOne(count) == count + 1

\* TimeoutCount = TimeoutCountCOS;
ReloadCount(count) == count

\* the watchdog run whatever COS_timeout_enable says
WatchdogCheckedAlways(enable) == TRUE

\* else if (COStimeoutEnable)
WatchdogChecked(enable) == enable

\* if (TimeoutCount>0 && CurrCOSState==HIGH)
CountsDown(count, curr) == count > 0 /\ curr = HIGH

\* a comparison an unsigned count never satisfies
TimeoutReachedNever(count) == count < 0

\* else if (TimeoutCount==0)
TimeoutReached(count) == count = 0

\* TimeoutCount=-1;  in a uint16_t
DisarmValue == ToU16(-1)

\* The result of lines 219-252 for the sample curr: the calls made, and the
\* new values of TimeoutCount and LastCOSState.
CosWatchdog(curr) ==
    IF EdgeDetected(LastCOSState, curr)
    THEN IF curr = HIGH
         THEN [io |-> <<KeyCmd>>, count |-> ReloadCount(TimeoutCountCOS),
               last |-> curr, fired |-> FALSE]
         ELSE [io |-> <<UnkeyCmd>>, count |-> TimeoutCount,
               last |-> curr, fired |-> FALSE]
    ELSE IF WatchdogChecked(COStimeoutEnable)
         THEN IF CountsDown(TimeoutCount, curr)
              THEN [io |-> <<>>, count |-> ToU16(TimeoutCount - 1),
                    last |-> LastCOSState, fired |-> FALSE]
              ELSE IF TimeoutReached(TimeoutCount)
                   THEN [io |-> <<TimeoutMsg, UnkeyCmd>>,
                         count |-> DisarmValue,
                         last |-> LastCOSState, fired |-> TRUE]
                   ELSE [io |-> <<>>, count |-> TimeoutCount,
                         last |-> LastCOSState, fired |-> FALSE]
         ELSE [io |-> <<>>, count |-> TimeoutCount,
               last |-> LastCOSState, fired |-> FALSE]

(***************************************************************************)
(* main(), lines 254-271: the shutdown switch (active low).                *)
(***************************************************************************)
\* if (digitalRead(shutdownSwitchPin)==LOW): the read is not guarded by
\* shutdownSwitchEnable, which main() only prints
SwitchProcessed(sample) == sample = LOW

\* if (SDswitchPressedCount>SDswitchActivateCount)
SwitchHeld(count, threshold) == count > threshold

\* The new SDswitchPressedCount and whether the shutdown sequence runs.
ShutdownSwitch(sample) ==
    IF SwitchProcessed(sample)
    THEN LET count == ToU16(SDswitchPressedCount + 1)
         IN  [count |-> count,
              fire |-> SwitchHeld(count, SDswitchActivateCount)]
    ELSE [count |-> 0, fire |-> FALSE]

\* the power-off issued before the shutdown script and the wait
ShutdownSequencePoweroffFirst ==
    <<NetWrite(HIGH), ShutdownMsg, PoweroffCmd, ShutdownScript, GraceDelay>>

\* lines 261-265
ShutdownSequence ==
    <<NetWrite(HIGH), ShutdownMsg, ShutdownScript, GraceDelay, PoweroffCmd>>

(***************************************************************************)
(* wifiLightHandler(), lines 97-116.                                       *)
(***************************************************************************)
\* lastWrite=HIGH;  after digitalWrite(networkStatusPin, LOW)
LastWriteAfterLow == HIGH

\* lastWrite = LOW;  after digitalWrite(networkStatusPin, HIGH)
LastWriteAfterHigh == LOW

\* the two levels written exchanged
wifiLightHandlerInverted(len) ==
    IF len = 0 /\ lastWrite = HIGH
    THEN [io |-> <<NetWrite(HIGH)>>, pin |-> HIGH,
          lastWrite |-> LastWriteAfterLow]
    ELSE IF len # 0 /\ lastWrite = LOW
         THEN [io |-> <<NetWrite(LOW)>>, pin |-> LOW,
               lastWrite |-> LastWriteAfterHigh]
         ELSE [io |-> <<>>, pin |-> networkPinLevel, lastWrite |-> lastWrite]

\* The calls made, the pin level and the new lastWrite for an address of
\* length len.
wifiLightHandler(len) ==
    IF len = 0 /\ lastWrite = HIGH
    THEN [io |-> <<NetWrite(LOW)>>, pin |-> LOW,
          lastWrite |-> LastWriteAfterLow]
    ELSE IF len # 0 /\ lastWrite = LOW
         THEN [io |-> <<NetWrite(HIGH)>>, pin |-> HIGH,
               lastWrite |-> LastWriteAfterHigh]
         ELSE [io |-> <<>>, pin |-> networkPinLevel, lastWrite |-> lastWrite]

\* the check made whatever enable_network_status_LED says
NetCheckDueUnguarded(count, divisor, enabled) == (count % divisor) = 0

\* if ((loopCount++ % netCheckDivisor)==0 && networkStatusOn)
NetCheckDue(count, divisor, enabled) == (count % divisor) = 0 /\ enabled

(***************************************************************************)
(* main(), lines 214-278: one pass through the loop, reading curr from the *)
(* COS pin and sample from the shutdown pin, and len as the length of the  *)
(* address getIPaddress() returns if it is called.  A pass that runs the   *)
(* shutdown sequence leaves the loop, frees the dictionary and returns.    *)
(***************************************************************************)
Tick(curr, sample, len) ==
    /\ pc = "running"
    /\ LET cos == CosWatchdog(curr)
           sd == ShutdownSwitch(sample)
           check == ~sd.fire
                    /\ NetCheckDue(loopCount, netCheckDivisor, networkStatusOn)
           wifi == IF check THEN wifiLightHandler(len)
                   ELSE [io |-> <<>>, pin |-> networkPinLevel,
                         lastWrite |-> lastWrite]
           edge == prevSample # curr
       IN  /\ CurrCOSState' = curr
           /\ prevSample' = curr
           /\ lastCmd' = LastCommand(cos.io, lastCmd)
           /\ LastCOSState' = cos.last
           /\ TimeoutCount' = cos.count
           /\ shutdownSample' = sample
           /\ SDswitchPressedCount' = sd.count
           /\ IF sd.fire
              THEN /\ io' = cos.io \o ShutdownSequence
                   /\ networkPinLevel' = HIGH
                   /\ pc' = "terminated"
                   /\ exitStatus' = RETVAL_OK
                   /\ UNCHANGED <<loopCount, lastWrite, IPlen>>
              ELSE /\ io' = cos.io \o wifi.io \o <<LoopDelay>>
                   /\ networkPinLevel' = wifi.pin
                   /\ lastWrite' = wifi.lastWrite
                   /\ IPlen' = IF check THEN len ELSE IPlen
                   \* unsigned int: wraps at 2^32, far beyond the passes explored
                   /\ loopCount' = loopCount + 1
                   /\ UNCHANGED <<pc, exitStatus>>
           /\ lastEdge' = IF edge THEN (IF curr = HIGH THEN "rising"
                                                       ELSE "falling")
                          ELSE lastEdge
           /\ heldTicks' = IF edge THEN 0 ELSE heldTicks + 1
           /\ timeoutsSinceEdge' = IF edge THEN 0
                                   ELSE IF cos.fired
                                        THEN timeoutsSinceEdge + 1
                                        ELSE timeoutsSinceEdge
           /\ pressedRun' = IF sample = LOW THEN pressedRun + 1 ELSE 0
           /\ netChecked' = check
           /\ prevConnected' = IF check THEN len # 0 ELSE prevConnected
    /\ UNCHANGED <<cfgVars, TimeoutCountCOS>>

(***************************************************************************)
(* The program, for MaxLoops passes with every input.                      *)
(***************************************************************************)
Loop ==
    /\ loopCount < MaxLoops
    /\ \E curr \in Levels, sample \in Levels, len \in IPlenValues :
          Tick(curr, sample, len)

Next ==
    \/ Startup
    \/ Loop

Spec == Init /\ [][Next]_vars

\* The loop never blocks for ever: every call it makes returns.
FairSpec == Spec /\ WF_vars(Next)

(***************************************************************************)
(* The program with the COS input stuck high from the first pass on and    *)
(* the shutdown switch never pressed, for more than 2^16 passes.           *)
(***************************************************************************)
InitStuck ==
    /\ InitCommon
    /\ asteriskCtl = TRUE
    /\ COStimeoutEnable = TRUE
    /\ shutdownSwitchEnable = FALSE
    /\ networkStatusOn = FALSE
    /\ TimeoutMs = 100
    /\ LoopDelayMs = 100
    /\ netCheckDivisor = 1
    /\ SDswitchActivateCount = 1
    /\ SDswitchPressedCount \in UninitU16

LoopStuck ==
    /\ loopCount < StuckLoops
    /\ Tick(HIGH, HIGH, 0)

NextStuck ==
    \/ Startup
    \/ LoopStuck

SpecStuck == InitStuck /\ [][NextStuck]_vars

(***************************************************************************)
(* Vocabulary of the properties.                                           *)
(***************************************************************************)
\* the state was produced by a pass through the loop (not by the start-up)
Ticked == heldTicks > 0 \/ lastEdge # "none"
Keys(s) == Count(s, KeyCmd)
Unkeys(s) == Count(s, UnkeyCmd)
NetWrites(s) == Count(s, NetWrite(LOW)) + Count(s, NetWrite(HIGH))
\* round(ms / delayMs), rounding half up
RoundHalfUp(ms, delayMs) == (2 * ms + delayMs) \div (2 * delayMs)
\* the level main() drives on the network pin before the loop
DisconnectedLevel == LOW

(***************************************************************************)
(* C1: with the COS timeout enabled, once the watchdog has issued its      *)
(* unkey no further watchdog unkey is issued until the next edge, however  *)
(* long the level stays active: at most one per episode.                   *)
(***************************************************************************)
C1_OneTimeoutPerEpisode ==
    COStimeoutEnable => timeoutsSinceEdge <= 1

(***************************************************************************)
(* C2: in every pass, a key command is issued exactly when the sample is a *)
(* rising edge, an unkey command exactly when it is a falling edge or the  *)
(* countdown is at zero on a pass without an edge (a fired timeout), and   *)
(* no pass issues more than one key/unkey command.                         *)
(***************************************************************************)
C2_CommandsFollowEdges ==
    [][pc = "running" =>
         LET rising == LastCOSState # CurrCOSState' /\ CurrCOSState' = HIGH
             falling == LastCOSState # CurrCOSState' /\ CurrCOSState' = LOW
             timeout == /\ LastCOSState = CurrCOSState'
                        /\ COStimeoutEnable
                        /\ TimeoutCount = 0
         IN  /\ Keys(io') = (IF rising THEN 1 ELSE 0)
             /\ Unkeys(io') = (IF falling \/ timeout THEN 1 ELSE 0)
             /\ Keys(io') + Unkeys(io') <= 1
             /\ Has(io', TimeoutMsg) <=> timeout]_vars

\* a pass issued the watchdog unkey of an episode begun by a rising edge
C2_Witness ==
    /\ lastEdge = "rising"
    /\ Has(io, TimeoutMsg)
    /\ Unkeys(io) = 1

C4_DisabledUnkeyOnlyOnFall ==
    [][(pc = "running" /\ ~COStimeoutEnable /\ Has(io', UnkeyCmd)) =>
          (LastCOSState = HIGH /\ CurrCOSState' = LOW)]_vars

\* timeout disabled, and the level held active longer than the countdown
C4_Witness ==
    /\ ~COStimeoutEnable
    /\ lastEdge = "rising"
    /\ CurrCOSState = HIGH
    /\ heldTicks > TimeoutCountCOS + 1

(***************************************************************************)
(* C5: with the COS timeout enabled, a key command is eventually followed  *)
(* by an unkey command unless the shutdown sequence ends the loop (stated  *)
(* for the key commands issued early enough for the countdown to run out   *)
(* within the passes explored).                                            *)
(***************************************************************************)
C5_KeyLeadsToUnkey ==
    (/\ pc = "running"
     /\ COStimeoutEnable
     /\ Has(io, KeyCmd)
     /\ loopCount + TimeoutCountCOS < MaxLoops)
        ~> (Has(io, UnkeyCmd) \/ pc = "terminated")

\* the level stayed active after a key command and the watchdog unkeyed
C5_Witness ==
    /\ COStimeoutEnable
    /\ lastEdge = "rising"
    /\ CurrCOSState = HIGH
    /\ timeoutsSinceEdge = 1
    /\ Has(io, UnkeyCmd)

(***************************************************************************)
(* C6: the shutdown sequence runs exactly at the                           *)
(* (SDswitchActivateCount+1)-th consecutive pressed sample, and after      *)
(* every pass the press counter is the length of the current run of        *)
(* pressed samples.                                                        *)
(***************************************************************************)
C6_ShutdownAfterFullRun ==
    /\ pc = "terminated" => pressedRun = SDswitchActivateCount + 1
    /\ (pc = "running" /\ Ticked) =>
          /\ SDswitchPressedCount = pressedRun
          /\ pressedRun <= SDswitchActivateCount

(***************************************************************************)
(* C7: with the shutdown switch disabled in the configuration, the         *)
(* shutdown sequence never runs.                                           *)
(***************************************************************************)
C7_DisabledSwitchIgnored ==
    ~shutdownSwitchEnable =>
        /\ pc # "terminated"
        /\ ~Has(io, ShutdownScript)
        /\ ~Has(io, PoweroffCmd)

(***************************************************************************)
(* C8: a connectivity check writes the network pin only if the             *)
(* connectivity it finds differs from that of the previous check (from     *)
(* "disconnected" for the first check).                                    *)
(***************************************************************************)
C8_WriteOnlyOnChange ==
    [][(pc = "running" /\ netChecked' /\ NetWrites(io') > 0) =>
          ((IPlen' # 0) # prevConnected)]_vars

(***************************************************************************)
(* C9: after a pass that made a connectivity check, the network pin is at  *)
(* the disconnected level exactly if the check found no address.           *)
(***************************************************************************)
C9_PinFollowsConnectivity ==
    (pc = "running" /\ netChecked) =>
        ((networkPinLevel = DisconnectedLevel) <=> (IPlen = 0))

(***************************************************************************)
(* C10: without the control file the process never enters the loop: it     *)
(* exits with a nonzero status, having issued no command and written no    *)
(* pin.                                                                    *)
(***************************************************************************)
C10_NoControlFileExits ==
    ~asteriskCtl =>
        /\ pc \in {"start", "exited"}
        /\ pc = "exited" => exitStatus # 0
        /\ \A i \in DOMAIN io : ~IsOutput(io[i])
        /\ loopCount = 0
        /\ ~Ticked

\* the process has exited on the missing control file
C10_Witness ==
    /\ ~asteriskCtl
    /\ pc = "exited"
    /\ io = <<NotRunningMsg>>

(***************************************************************************)
(* C11: the start-up code writes the network pin to its off level (LOW)    *)
(* and issues exactly one unkey and no key command, whatever the first COS *)
(* sample is; nothing is issued before it and key commands are only issued *)
(* by later passes.                                                        *)
(***************************************************************************)
C11_StartupUnkeysFirst ==
    /\ pc = "start" => (io = <<>> /\ lastCmd = "none")
    /\ (pc = "running" /\ ~Ticked) =>
          /\ loopCount = 0
          /\ NetWrites(io) = 1
          /\ Has(io, NetWrite(LOW))
          /\ networkPinLevel = LOW
          /\ Unkeys(io) = 1
          /\ Keys(io) = 0
          /\ lastCmd = "unkey"
    /\ Keys(io) > 0 => Ticked

\* the start-up code has run with the COS pin reading active
C11_Witness ==
    /\ pc = "running"
    /\ ~Ticked
    /\ LastCOSState = HIGH
    /\ io[Len(io)] = UnkeyCmd

(***************************************************************************)
(* C12: the pass that runs the shutdown sequence ends with the pin write   *)
(* HIGH, the shutdown script, the grace wait and the power-off, in this    *)
(* order, and terminates the process: no step follows, and the shutdown    *)
(* commands are issued by no other pass.                                   *)
(***************************************************************************)
C12_ShutdownSequenceThenStop ==
    /\ pc = "terminated" =>
          /\ Len(io) >= 5
          /\ io[Len(io) - 4] = NetWrite(HIGH)
          /\ io[Len(io) - 2] = ShutdownScript
          /\ io[Len(io) - 1] = GraceDelay
          /\ io[Len(io)] = PoweroffCmd
          /\ Count(io, ShutdownScript) = 1
          /\ Count(io, PoweroffCmd) = 1
          /\ NetWrites(io) = 1
          /\ networkPinLevel = HIGH
          /\ ~ENABLED Next
    /\ (Has(io, ShutdownScript) \/ Has(io, PoweroffCmd)) => pc = "terminated"

\* a pass that saw a falling edge and then ran the shutdown sequence
C12_Witness ==
    /\ pc = "terminated"
    /\ io[1] = UnkeyCmd
    /\ io[Len(io)] = PoweroffCmd

(***************************************************************************)
(* C13: a watchdog unkey is never issued on a pass whose COS sample is     *)
(* inactive, nor after a falling edge before the next rising edge (stated  *)
(* for the configurations whose countdown fits the counter).               *)
(***************************************************************************)
C13_NoTimeoutWhileInactive ==
    (/\ TimeoutCountCOS = RoundHalfUp(TimeoutMs, LoopDelayMs)
     /\ Has(io, TimeoutMsg)) =>
        (CurrCOSState = HIGH /\ lastEdge # "falling")

(***************************************************************************)
(* C14: before the first edge of the run no watchdog unkey is issued,      *)
(* however many passes the COS level has been active since start-up.       *)
(***************************************************************************)
C14_NoTimeoutBeforeFirstEdge ==
    lastEdge = "none" => ~Has(io, TimeoutMsg)

(***************************************************************************)
(* C15: the countdown loaded by a rising edge is                           *)
(* round(TimeoutMs / LoopDelayMs), rounding half up, for every             *)
(* configuration with LoopDelayMs > 0.                                     *)
(***************************************************************************)
C15_LoadedCountIsRounded ==
    (lastEdge = "rising" /\ heldTicks = 0 /\ LoopDelayMs > 0) =>
        TimeoutCount = RoundHalfUp(TimeoutMs, LoopDelayMs)

(***************************************************************************)
(* C16 as claimed: the start-up code writes HIGH to the network pin, a     *)
(* check that finds an address writes only LOW and a check that finds      *)
(* none writes only HIGH.                                                  *)
(***************************************************************************)
C16_HighMeansDisconnected ==
    [][/\ (pc = "start" /\ pc' = "running") =>
             (Has(io', NetWrite(HIGH)) /\ ~Has(io', NetWrite(LOW)))
       /\ (pc = "running" /\ netChecked' /\ NetWrites(io') > 0) =>
             IF IPlen' # 0
             THEN Has(io', NetWrite(LOW)) /\ ~Has(io', NetWrite(HIGH))
             ELSE Has(io', NetWrite(HIGH)) /\ ~Has(io', NetWrite(LOW))]_vars

(***************************************************************************)
(* C16 amended: the start-up code writes LOW to the network pin, a check   *)
(* that finds an address writes only HIGH and a check that finds none      *)
(* writes only LOW.                                                        *)
(***************************************************************************)
C16_HighMeansConnected ==
    [][/\ (pc = "start" /\ pc' = "running") =>
             (Has(io', NetWrite(LOW)) /\ ~Has(io', NetWrite(HIGH)))
       /\ (pc = "running" /\ netChecked' /\ NetWrites(io') > 0) =>
             IF IPlen' # 0
             THEN /\ Has(io', NetWrite(HIGH))
                  /\ ~Has(io', NetWrite(LOW))
                  /\ networkPinLevel' = HIGH
             ELSE /\ Has(io', NetWrite(LOW))
                  /\ ~Has(io', NetWrite(HIGH))
                  /\ networkPinLevel' = LOW]_vars

\* a check found an address and wrote the pin
C16_Witness ==
    /\ pc = "running"
    /\ netChecked
    /\ IPlen # 0
    /\ NetWrites(io) = 1
    /\ networkPinLevel = HIGH

(***************************************************************************)
(* C17: a pass makes a connectivity check only if the network indicator is *)
(* enabled and the count of passes before it is a multiple of              *)
(* netCheckDivisor; with the indicator disabled no check is made and the   *)
(* network pin is written only by the start-up code and by the shutdown    *)
(* sequence.                                                               *)
(***************************************************************************)
C17_ChecksOnlyWhenDue ==
    /\ netChecked =>
          /\ networkStatusOn
          /\ pc = "running"
          /\ (loopCount - 1) % netCheckDivisor = 0
    /\ ~networkStatusOn =>
          /\ ~netChecked
          /\ NetWrites(io) > 0 =>
                ((pc = "running" /\ ~Ticked) \/ pc = "terminated")

\* the check of the third pass with a divisor of 2
C17_Witness ==
    /\ netChecked
    /\ netCheckDivisor = 2
    /\ loopCount = 3

(***************************************************************************)
(* C18: as long as every COS sample equals the one read at start-up, no    *)
(* key command is issued, and the first pass issues no unkey command       *)
(* either.                                                                 *)
(***************************************************************************)
C18_StartIsNoEdge ==
    (Ticked /\ lastEdge = "none") =>
        /\ Keys(io) = 0
        /\ heldTicks = 1 => Unkeys(io) = 0

\* COS active at start-up and on the first three passes
C18_Witness ==
    /\ lastEdge = "none"
    /\ prevSample = HIGH
    /\ heldTicks = 3
    /\ pc = "running"

(***************************************************************************)
(* C19: after every pass, if the most recent key/unkey command is a key    *)
(* command the last COS sample is active; and no key command is issued     *)
(* while the most recent command is a key command.                         *)
(***************************************************************************)
C19_KeyedOnlyWhileActive ==
    /\ []((Ticked /\ lastCmd = "key") => CurrCOSState = HIGH)
    /\ [][lastCmd = "key" => Keys(io') = 0]_vars

\* still keyed two passes after the rising edge
C19_Witness ==
    /\ lastCmd = "key"
    /\ lastEdge = "rising"
    /\ heldTicks = 2
=============================================================================
